---------------------------- MODULE Spec2Model ----------------------------
(***************************************************************************)
(* A model of the benchmark harness of bench-rs: the Bencher of            *)
(* src/src/bench.rs (its setters, the manual report calls, run_manual      *)
(* stepped one loop iteration at a time, and summary) and the reduction    *)
(* functions of src/src/statistics.rs over i32 and f64 elements.           *)
(***************************************************************************)
EXTENDS Integers, Sequences, FiniteSets, TLC

(* ------------------------------- bounds -------------------------------- *)
\* thresholds passed to warmup_iters / bench_min_iters range over 0..MaxIters
MaxIters == 2
\* a duration-driven loop makes at most MaxSpin invocations
MaxSpin == 2
\* the routine makes at most MaxReports report calls per invocation
MaxReports == 2
\* run_manual is called at most MaxRuns times on one Bencher
MaxRuns == 2
\* reports are made only while fewer than MaxSamples samples are recorded
MaxSamples == 3
\* the statistics functions are called on sequences of at most MaxLen elements
MaxLen == 4
\* f64 is narrowed to Precision significand bits, exponents 0..ExpMax and a
\* least unit of 2^-FracBits
Precision == 3
ExpMax == 3
FracBits == 1

(* ------------------------------ values --------------------------------- *)
None == <<>>
Some(x) == <<x>>
IsSome(o) == o # None
Unwrap(o) == o[1]
\* o.unwrap_or_else(|| d)
unwrap_or_else(o, d) == IF IsSome(o) THEN Unwrap(o) ELSE d

Max(a, b) == IF a >= b THEN a ELSE b

\* std::time::Duration: whole seconds and sub-second nanoseconds
from_secs(secs) == [secs |-> secs, nanos |-> 0]
from_millis(millis) ==
    [secs |-> millis \div 1000, nanos |-> (millis % 1000) * 1000000]
\* a faulty Duration comparison: a >= b
DurGe(a, b) == a.secs > b.secs \/ (a.secs = b.secs /\ a.nanos >= b.nanos)
\* a > b on Duration (lexicographic on secs, nanos)
DurGt(a, b) == a.secs > b.secs \/ (a.secs = b.secs /\ a.nanos > b.nanos)

\* the arguments the routine and the caller pass to the report calls
MillisArgs == {1500}
DurArgs == {from_secs(2)}
\* one report call: manual_millis(m), manual_dur(Some(d)), manual_dur(None)
Reports ==
    {[op |-> "manual_millis", arg |-> m] : m \in MillisArgs}
    \cup {[op |-> "manual_dur", arg |-> Some(d)] : d \in DurArgs}
    \cup {[op |-> "manual_dur", arg |-> None]}
\* the report calls one invocation of the routine makes, in order
Routines == UNION {[1..n -> Reports] : n \in 0..MaxReports}

IndepArgs == {7}
\* the name given to Bencher::default
BenchName == "bench"
\* the arguments of warmup_secs and bench_min_secs
SecsArgs == {0, 1}
\* the whole seconds by which the clock can advance between two readings of elapsed()
Ticks == {0, 1, 2}

(* -------------------------------- numbers ------------------------------ *)
\* f64 is modelled as a binary floating-point format with round-to-nearest,
\* ties-to-even, infinities and NaN, narrowed to Precision significand bits
\* and exponents 0..ExpMax over a least unit of 2^-FracBits.  A finite value
\* is kept as its count of least units.  Signed zeros are not distinguished.
RECURSIVE Pow2(_)
Pow2(n) == IF n = 0 THEN 1 ELSE 2 * Pow2(n - 1)

RECURSIVE Gcd(_, _)
Gcd(a, b) == IF b = 0 THEN a ELSE Gcd(b, a % b)

Abs(n) == IF n < 0 THEN -n ELSE n
Sign(n) == IF n < 0 THEN -1 ELSE 1

Scale == Pow2(FracBits)
FinMags == {m * Pow2(e) : m \in 0..(Pow2(Precision) - 1), e \in 0..ExpMax}
MaxMag == (Pow2(Precision) - 1) * Pow2(ExpMax)

Fin(n) == [t |-> "fin", v |-> n]
NaN == [t |-> "nan", v |-> 0]
Inf(s) == [t |-> "inf", v |-> s]
Zero == Fin(0)

\* the exponent of the binade a/den least units falls in (a >= 0, den > 0)
RECURSIVE ExpOf(_, _, _)
ExpOf(a, den, e) ==
    IF e = ExpMax \/ a < Pow2(Precision) * Pow2(e) * den THEN e
    ELSE ExpOf(a, den, e + 1)

\* the magnitude nearest to a/den least units, ties to the even significand;
\* a magnitude above MaxMag stands for an overflow to infinity
RoundMag(a, den) ==
    LET ulp == Pow2(ExpOf(a, den, 0))
        lo == (a \div (den * ulp)) * ulp
        hi == lo + ulp
    IN  IF lo * den = a THEN lo
        ELSE IF 2 * a < (lo + hi) * den THEN lo
        ELSE IF 2 * a > (lo + hi) * den THEN hi
        ELSE IF (lo \div ulp) % 2 = 0 THEN lo ELSE hi

\* the f64 nearest to the rational num/den least units (den > 0)
RoundQ(num, den) ==
    LET m == RoundMag(Abs(num), den)
    IN  IF m > MaxMag THEN Inf(Sign(num)) ELSE Fin(Sign(num) * m)

\* `n as f64` and cast(n) of a non-negative integer
FromInt(n) == RoundQ(n * Scale, 1)

FAdd(x, y) ==
    IF x.t = "nan" \/ y.t = "nan" THEN NaN
    ELSE IF x.t = "inf" THEN (IF y.t = "inf" /\ y.v # x.v THEN NaN ELSE x)
    ELSE IF y.t = "inf" THEN y
    ELSE RoundQ(x.v + y.v, 1)

FNeg(x) == IF x.t = "nan" THEN NaN ELSE [x EXCEPT !.v = -x.v]
FSub(x, y) == FAdd(x, FNeg(y))

FMul(x, y) ==
    IF x.t = "nan" \/ y.t = "nan" THEN NaN
    ELSE IF x.t = "inf" \/ y.t = "inf"
         THEN IF x.v = 0 \/ y.v = 0 THEN NaN ELSE Inf(Sign(x.v) * Sign(y.v))
    ELSE RoundQ(x.v * y.v, Scale)

FDiv(x, y) ==
    IF x.t = "nan" \/ y.t = "nan" THEN NaN
    ELSE IF x.t = "inf" THEN (IF y.t = "inf" THEN NaN ELSE Inf(Sign(x.v) * Sign(y.v)))
    ELSE IF y.t = "inf" THEN Zero
    ELSE IF y.v = 0 THEN (IF x.v = 0 THEN NaN ELSE Inf(Sign(x.v)))
    ELSE RoundQ(Sign(y.v) * x.v * Scale, Abs(y.v))

\* x < y on f64: false when either side is NaN
FLt(x, y) ==
    /\ x.t # "nan" /\ y.t # "nan"
    /\ IF x.t = "inf" THEN x.v < 0 /\ ~(y.t = "inf" /\ y.v < 0)
       ELSE IF y.t = "inf" THEN y.v > 0
       ELSE x.v < y.v

\* the integer part of the square root of a
ISqrt(a) == CHOOSE k \in 0..a : k * k <= a /\ a < (k + 1) * (k + 1)

\* f64::sqrt, correctly rounded
FSqrt(x) ==
    IF x.t = "nan" THEN NaN
    ELSE IF x.t = "inf" THEN (IF x.v > 0 THEN x ELSE NaN)
    ELSE IF x.v < 0 THEN NaN
    ELSE LET a == x.v * Scale
             ulp == Pow2(ExpOf(ISqrt(a), 1, 0))
             lo == (ISqrt(a) \div ulp) * ulp
             hi == lo + ulp
         IN  IF lo * lo = a THEN Fin(lo)
             ELSE IF 4 * a < (lo + hi) * (lo + hi) THEN Fin(lo)
             ELSE IF 4 * a > (lo + hi) * (lo + hi) THEN Fin(hi)
             ELSE IF (lo \div ulp) % 2 = 0 THEN Fin(lo) ELSE Fin(hi)

(* ------------------------------ statistics ----------------------------- *)
\* the element types the generic functions are used at: i32 in the tests of
\* statistics.rs, f64 in Bencher::summary
ElemTypes == {"i32", "f64"}

\* integer division truncates toward zero
IDiv(a, b) == Sign(a) * Sign(b) * (Abs(a) \div Abs(b))

TAdd(T, a, b) == IF T = "f64" THEN FAdd(a, b) ELSE a + b
TDiv(T, a, b) == IF T = "f64" THEN FDiv(a, b) ELSE IDiv(a, b)
TLt(T, a, b) == IF T = "f64" THEN FLt(a, b) ELSE a < b
\* cast(n).unwrap()
cast(T, n) == IF T = "f64" THEN FromInt(n) ELSE n

\* a.partial_cmp(b)
partial_cmp(T, a, b) ==
    IF T = "f64" /\ (a.t = "nan" \/ b.t = "nan") THEN None
    ELSE IF TLt(T, a, b) THEN Some("Less")
    ELSE IF TLt(T, b, a) THEN Some("Greater")
    ELSE Some("Equal")

\* |a, b| a.partial_cmp(b).unwrap_or_else(|| Less)
Compare(T, a, b) == unwrap_or_else(partial_cmp(T, a, b), "Less")

\* x put into the sorted s after every element that does not compare greater
RECURSIVE Insert(_, _, _)
Insert(T, x, s) ==
    IF s = <<>> THEN <<x>>
    ELSE IF Compare(T, x, Head(s)) = "Less" THEN <<x>> \o s
    ELSE <<Head(s)>> \o Insert(T, x, Tail(s))

\* a faulty sort: the copy keeps the caller's order
sort_by_keep_order(T, t) == t

\* sorted.extend(t.iter()); sorted.sort_by(..): a stable sort of a copy of t
RECURSIVE sort_by(_, _)
sort_by(T, t) ==
    IF t = <<>> THEN <<>>
    ELSE Insert(T, t[Len(t)], sort_by(T, SubSeq(t, 1, Len(t) - 1)))

RECURSIVE min_fold(_, _)
min_fold(f, acc) ==
    IF f = <<>> THEN acc
    ELSE min_fold(Tail(f), IF acc = None THEN Some(Head(f))
                           ELSE Some(IF FLt(Head(f), Unwrap(acc))
                                     THEN Head(f) ELSE Unwrap(acc)))

min(f) == min_fold(f, None)

RECURSIVE max_fold(_, _)
max_fold(f, acc) ==
    IF f = <<>> THEN acc
    ELSE max_fold(Tail(f), IF acc = None THEN Some(Head(f))
                           ELSE Some(IF FLt(Unwrap(acc), Head(f))
                                     THEN Head(f) ELSE Unwrap(acc)))

max(f) == max_fold(f, None)

RECURSIVE sum_fold(_, _)
sum_fold(f, acc) ==
    IF f = <<>> THEN acc
    ELSE sum_fold(Tail(f), IF acc = None THEN Some(Head(f))
                           ELSE Some(FAdd(Head(f), Unwrap(acc))))

sum(f) == sum_fold(f, None)

mean(f) ==
    LET s == sum(f)
    IN  IF IsSome(s) THEN Some(FDiv(Unwrap(s), cast("f64", Len(f)))) ELSE None

median(T, t) ==
    IF Len(t) = 0 THEN None
    ELSE LET sorted == sort_by(T, t)
             i == Len(t) \div 2
         IN  IF Len(t) % 2 = 1
             THEN Some(sorted[i + 1])
             ELSE Some(TDiv(T, TAdd(T, sorted[i + 1], sorted[i]), cast(T, 2)))

\* a faulty quartiles: the upper half starts at the middle element for every length
quartiles_upper_from_mid(T, t) ==
    LET sorted == sort_by(T, t)
        i == Len(t) \div 2
        q1 == median(T, SubSeq(sorted, 1, i))
        q2 == median(T, sorted)
        q3 == median(T, SubSeq(sorted, i + 1, Len(sorted)))
    IN  IF IsSome(q1) /\ IsSome(q2) /\ IsSome(q3)
        THEN Some(<<Unwrap(q1), Unwrap(q2), Unwrap(q3)>>)
        ELSE None

quartiles(T, t) ==
    LET sorted == sort_by(T, t)
        i == Len(t) \div 2
        lower == SubSeq(sorted, 1, i)
        upper == IF Len(t) % 2 = 1
                 THEN SubSeq(sorted, i + 2, Len(sorted))
                 ELSE SubSeq(sorted, i + 1, Len(sorted))
        q1 == median(T, lower)
        q2 == median(T, sorted)
        q3 == median(T, upper)
    IN  IF IsSome(q1) /\ IsSome(q2) /\ IsSome(q3)
        THEN Some(<<Unwrap(q1), Unwrap(q2), Unwrap(q3)>>)
        ELSE None

RECURSIVE dev_fold(_, _, _)
dev_fold(v, c, acc) ==
    IF v = <<>> THEN acc
    ELSE dev_fold(Tail(v), c,
                  FAdd(acc, FMul(FSub(Head(v), c), FSub(Head(v), c))))

sum_square_deviations(v, c) ==
    IF Len(v) = 0 THEN None
    ELSE Some(dev_fold(v, IF IsSome(c) THEN Unwrap(c) ELSE Unwrap(mean(v)), Zero))

\* a faulty variance: the sum, or zero when there is none, over the length
variance_population(v, vbar) ==
    Some(FDiv(unwrap_or_else(sum_square_deviations(v, vbar), Zero),
              cast("f64", Len(v))))

variance(v, vbar) ==
    LET s == sum_square_deviations(v, vbar)
    IN  IF IsSome(s)
        THEN Some(FDiv(Unwrap(s), FSub(cast("f64", Len(v)), FromInt(1))))
        ELSE None

standard_deviation(v, vbar) ==
    LET var == variance(v, vbar)
    IN  IF IsSome(var) THEN Some(FSqrt(Unwrap(var))) ELSE None

VARIABLES
    name,                  \* String, given to Bencher::default
    state,                 \* BencherState: "Warmup", "Bench", "Abort"
    durations,             \* Vec<Duration>
    bench_min_dur,         \* Option<Duration>
    bench_min_iters,       \* Option<u64>
    warmup_dur,            \* Option<Duration>
    warmup_iters,          \* Option<u64>
    independent_variable,  \* Option<u64>
    pc,                    \* position of the caller / of run_manual
    num_warmups,           \* run_manual local
    num_benches,           \* run_manual local
    i,                     \* run_manual: the for loops' index
    clock,                 \* seconds elapsed since warmup_start / bench_start
    panic,                 \* "none", or the message of the panic that ended the run
    runs,                  \* number of run_manual calls begun
    fresh,                 \* the current run began on a Bencher as default() builds it
    calls,                 \* invocations of the routine made in the current phase
    absent_seen,           \* the routine reported an absent duration in this run
    blog,                  \* per measurement-phase invocation of this run: what it reported
    warm_rec,              \* a warmup-phase invocation of this run recorded a sample
    ret,                   \* the Summary values returned by the summary() calls made
                           \* since the last other operation
    stat                   \* a call of a statistics function: element type, input, result

config == <<name, bench_min_dur, bench_min_iters, warmup_dur, warmup_iters,
            independent_variable>>
locals == <<num_warmups, num_benches, i, clock>>
history == <<runs, fresh, calls, absent_seen, blog, warm_rec, ret>>
vars == <<state, durations, config, pc, locals, panic, history, stat>>

\* no statistics function has been called
NoCall == [T |-> "f64", input |-> <<>>, fn |-> "none", out |-> None]
bencher == <<state, durations, config, pc, locals, panic, history>>

AbortMsg == "Aborting benchmark!"
SubMsg == "overflow when subtracting durations"

(* --------------------------- report calls ------------------------------ *)
\* b is the pair of Bencher fields the report calls touch

\* a faulty manual_millis: records whatever the state is
manual_millis_any_state(b, millis) ==
    [b EXCEPT !.durations = Append(@, from_millis(millis))]

\* a faulty manual_millis: the sample is put in front
manual_millis_prepend(b, millis) ==
    IF b.state = "Bench"
    THEN [b EXCEPT !.durations = <<from_millis(millis)>> \o @]
    ELSE b

manual_millis(b, millis) ==
    IF b.state = "Bench"
    THEN [b EXCEPT !.durations = Append(@, from_millis(millis))]
    ELSE b

\* a faulty manual_dur: records a present duration whatever the state is
manual_dur_any_state(b, d) ==
    IF d = None
    THEN [b EXCEPT !.state = "Abort"]
    ELSE [b EXCEPT !.durations = Append(@, Unwrap(d))]

\* a faulty manual_dur: an absent duration is ignored
manual_dur_ignore_none(b, d) ==
    IF d = None
    THEN b
    ELSE IF b.state = "Bench"
         THEN [b EXCEPT !.durations = Append(@, Unwrap(d))]
         ELSE b

manual_dur(b, d) ==
    IF d = None
    THEN [b EXCEPT !.state = "Abort"]
    ELSE IF b.state = "Bench"
         THEN [b EXCEPT !.durations = Append(@, Unwrap(d))]
         ELSE b

Report(b, r) ==
    IF r.op = "manual_millis" THEN manual_millis(b, r.arg) ELSE manual_dur(b, r.arg)

\* f(self): the routine's report calls applied in order
RECURSIVE Routine(_, _)
Routine(b, reps) ==
    IF reps = <<>> THEN b ELSE Routine(Report(b, Head(reps)), Tail(reps))

HasAbsent(reps) ==
    \E k \in 1..Len(reps) : reps[k].op = "manual_dur" /\ reps[k].arg = None
\* what one invocation reported
Kind(reps) ==
    IF Len(reps) = 1
    THEN (IF HasAbsent(reps) THEN "absent" ELSE "present")
    ELSE (IF HasAbsent(reps) THEN "other_absent" ELSE "other")

Self == [state |-> state, durations |-> durations]

\* the routine's inputs for one invocation
RoutineChoices == {reps \in Routines : Len(durations) + Len(reps) <= MaxSamples}

(* ------------------------------ setters -------------------------------- *)
AtCaller == pc \in {"idle", "returned"} /\ panic = "none"

\* the caller moves on: run_manual's frame, and the record of what the run did, are gone
Idle ==
    /\ pc' = "idle"
    /\ num_warmups' = 0 /\ num_benches' = 0 /\ i' = 0 /\ clock' = 0
    /\ fresh' = FALSE /\ calls' = 0 /\ absent_seen' = FALSE /\ blog' = <<>>
    /\ warm_rec' = FALSE /\ ret' = <<>>
    /\ UNCHANGED stat

warmup_secs(secs) ==
    /\ AtCaller
    /\ warmup_dur' = Some(from_secs(secs))
    /\ Idle
    /\ UNCHANGED <<state, durations, bench_min_dur, bench_min_iters, warmup_iters,
                   independent_variable, panic, runs, name>>

Set_warmup_iters(n) ==
    /\ AtCaller
    /\ warmup_iters' = Some(n)
    /\ Idle
    /\ UNCHANGED <<state, durations, bench_min_dur, bench_min_iters, warmup_dur,
                   independent_variable, panic, runs, name>>

bench_min_secs(secs) ==
    /\ AtCaller
    /\ bench_min_dur' = Some(from_secs(secs))
    /\ Idle
    /\ UNCHANGED <<state, durations, bench_min_iters, warmup_dur, warmup_iters,
                   independent_variable, panic, runs, name>>

Set_bench_min_iters(n) ==
    /\ AtCaller
    /\ bench_min_iters' = Some(n)
    /\ Idle
    /\ UNCHANGED <<state, durations, bench_min_dur, warmup_dur, warmup_iters,
                   independent_variable, panic, runs, name>>

Set_independent_variable(u) ==
    /\ AtCaller
    /\ independent_variable' = Some(u)
    /\ Idle
    /\ UNCHANGED <<state, durations, bench_min_dur, bench_min_iters, warmup_dur,
                   warmup_iters, panic, runs, name>>

(* ------------------- report calls made by the caller -------------------- *)
CallReport(r) ==
    /\ AtCaller
    /\ Len(durations) < MaxSamples
    /\ LET b == Report(Self, r) IN
         /\ state' = b.state
         /\ durations' = b.durations
    /\ Idle
    /\ UNCHANGED <<config, panic, runs>>

(* ------------------------------- summary ------------------------------- *)
NanosPerSec == 1000000000

\* d.as_secs() as f64 + d.subsec_nanos() as f64 / 1e9_f64: both operands of the
\* division are exact in f64, its quotient is rounded once
SecsF64(d) ==
    LET g == Gcd(d.nanos, NanosPerSec)
    IN  FAdd(FromInt(d.secs), RoundQ((d.nanos \div g) * Scale, NanosPerSec \div g))

\* self.durations.iter().map(|d| ..).collect()
RECURSIVE MapSecs(_)
MapSecs(ds) ==
    IF ds = <<>> THEN <<>> ELSE <<SecsF64(Head(ds))>> \o MapSecs(Tail(ds))

\* the Summary that self.summary() returns
summary(self) ==
    LET secs == MapSecs(self.durations)
        qs == unwrap_or_else(quartiles("f64", secs), <<Zero, Zero, Zero>>)
        iqr == FSub(qs[3], qs[1])
    IN  [name |-> self.name,
         n |-> Len(secs),
         mean |-> unwrap_or_else(mean(secs), Zero),
         min |-> unwrap_or_else(min(secs), Zero),
         max |-> unwrap_or_else(max(secs), Zero),
         median |-> unwrap_or_else(median("f64", secs), Zero),
         quartiles |-> qs,
         iqr |-> iqr,
         var |-> unwrap_or_else(variance(secs, None), Zero),
         std_dev |-> unwrap_or_else(standard_deviation(secs, None), Zero),
         independent_variable |-> self.independent_variable]

\* the fields of the Bencher that summary() reads
SelfFields ==
    [name |-> name, durations |-> durations,
     independent_variable |-> independent_variable]

\* a faulty summary(): the samples are drained out of the Bencher as they are read
summary_call_drain ==
    /\ AtCaller
    /\ Len(ret) < 2
    /\ ret' = Append(ret, summary(SelfFields))
    /\ durations' = <<>>
    /\ UNCHANGED <<state, config, pc, locals, panic, runs, fresh, calls,
                   absent_seen, blog, warm_rec, stat>>

\* the caller calls summary(): nothing but the returned value changes
summary_call ==
    /\ AtCaller
    /\ Len(ret) < 2
    /\ ret' = Append(ret, summary(SelfFields))
    /\ UNCHANGED <<state, durations, config, pc, locals, panic, runs, fresh, calls,
                   absent_seen, blog, warm_rec, stat>>

(* ------------------------------ run_manual ----------------------------- *)
\* a faulty abort_or_run: the routine runs whatever the state is
abort_or_run_no_check(reps) ==
    /\ panic' = panic
    /\ LET b == Routine(Self, reps) IN
         /\ state' = b.state
         /\ durations' = b.durations
    /\ calls' = calls + 1
    /\ absent_seen' = (absent_seen \/ HasAbsent(reps))
    /\ blog' = IF pc \in {"bench_dur", "bench_iters"}
               THEN Append(blog, Kind(reps)) ELSE blog
    /\ warm_rec' = (warm_rec \/ (pc \in {"warmup_dur", "warmup_iters"}
                                  /\ Len(Routine(Self, reps).durations) > Len(durations)))

\* abort_or_run(&f), the routine making the report calls reps
abort_or_run(reps) ==
    IF state = "Abort"
    THEN /\ panic' = AbortMsg
         /\ UNCHANGED <<state, durations, calls, absent_seen, blog, warm_rec>>
    ELSE /\ panic' = panic
         /\ LET b == Routine(Self, reps) IN
              /\ state' = b.state
              /\ durations' = b.durations
         /\ calls' = calls + 1
         /\ absent_seen' = (absent_seen \/ HasAbsent(reps))
         /\ blog' = IF pc \in {"bench_dur", "bench_iters"}
                    THEN Append(blog, Kind(reps)) ELSE blog
         /\ warm_rec' = (warm_rec \/ (pc \in {"warmup_dur", "warmup_iters"}
                                       /\ Len(Routine(Self, reps).durations) > Len(durations)))

\* for i in start..end: the first index, and whether index i is still in the range
\* faulty ranges: 0..end, and start..=end
RangeStartZero(start) == 0
RangeHasNextIncl(idx, end) == idx <= end
RangeStart(start) == start
RangeHasNext(idx, end) == idx < end

\* the values a reading of elapsed() can give in a duration-driven loop that has
\* made n invocations against the threshold dur
Elapsed(dur, n) ==
    {e \in {clock + t : t \in Ticks} : n < MaxSpin \/ ~DurGt(dur, from_secs(e))}

\* a faulty run_manual: every call starts over in Warmup
run_manual_begin_reset ==
    /\ AtCaller
    /\ runs < MaxRuns
    /\ runs' = runs + 1
    /\ fresh' = (runs = 0 /\ state = "Warmup" /\ durations = <<>>)
    /\ calls' = 0
    /\ absent_seen' = FALSE
    /\ blog' = <<>>
    /\ warm_rec' = FALSE
    /\ ret' = <<>>
    /\ num_warmups' = 0
    /\ num_benches' = 0
    /\ i' = 0
    /\ clock' = 0
    /\ pc' = "warmup_dur"
    /\ state' = "Warmup"
    /\ UNCHANGED <<durations, config, panic, stat>>

run_manual_begin ==
    /\ AtCaller
    /\ runs < MaxRuns
    /\ runs' = runs + 1
    /\ fresh' = (runs = 0 /\ state = "Warmup" /\ durations = <<>>)
    /\ calls' = 0
    /\ absent_seen' = FALSE
    /\ blog' = <<>>
    /\ warm_rec' = FALSE
    /\ ret' = <<>>
    /\ num_warmups' = 0
    /\ num_benches' = 0
    /\ i' = 0
    /\ clock' = 0
    /\ pc' = "warmup_dur"
    /\ UNCHANGED <<state, durations, config, panic, stat>>

\* lines 111-118: the duration-driven warmup loop, one evaluation of its condition
\* (and one pass through its body) per step
warmup_dur_loop ==
    /\ pc = "warmup_dur" /\ panic = "none"
    /\ IF warmup_dur = None
       THEN /\ pc' = "warmup_iters"
            /\ UNCHANGED <<state, durations, num_warmups, clock, panic, calls, absent_seen, blog, warm_rec>>
       ELSE \E e \in Elapsed(Unwrap(warmup_dur), num_warmups) :
              IF DurGt(Unwrap(warmup_dur), from_secs(e))
              THEN /\ \E reps \in RoutineChoices : abort_or_run(reps)
                   /\ num_warmups' = IF panic' = "none" THEN num_warmups + 1
                                     ELSE num_warmups
                   /\ clock' = e
                   /\ pc' = pc
              ELSE /\ pc' = "warmup_iters"
                   /\ clock' = 0
                   /\ UNCHANGED <<state, durations, num_warmups, panic, calls, absent_seen, blog, warm_rec>>
    /\ i' = IF pc' = "warmup_iters" /\ IsSome(warmup_iters)
            THEN RangeStart(num_warmups) ELSE i
    /\ UNCHANGED <<config, num_benches, runs, fresh, ret, stat>>

\* lines 121-126: for i in num_warmups..warmup_iters
warmup_iters_loop ==
    /\ pc = "warmup_iters" /\ panic = "none"
    /\ IF IsSome(warmup_iters) /\ RangeHasNext(i, Unwrap(warmup_iters))
       THEN /\ \E reps \in RoutineChoices : abort_or_run(reps)
            /\ i' = IF panic' = "none" THEN i + 1 ELSE i
            /\ pc' = pc
       ELSE /\ pc' = "set_bench"
            /\ UNCHANGED <<state, durations, i, panic, calls, absent_seen, blog, warm_rec>>
    /\ UNCHANGED <<config, num_warmups, num_benches, clock, runs, fresh, ret, stat>>

\* line 128 (and 131): self.state = BencherState::Bench
set_bench ==
    /\ pc = "set_bench" /\ panic = "none"
    /\ state' = "Bench"
    /\ num_benches' = 0
    /\ clock' = 0
    /\ pc' = "bench_dur"
    /\ calls' = 0
    /\ UNCHANGED <<durations, config, num_warmups, i, panic, runs, fresh, absent_seen,
                   blog, warm_rec, ret, stat>>

\* lines 132-140: the duration-driven measurement loop; its body reads the clock a
\* second time to compute bench_min_dur - bench_start.elapsed()
bench_dur_loop ==
    /\ pc = "bench_dur" /\ panic = "none"
    /\ IF bench_min_dur = None
       THEN /\ pc' = "bench_iters"
            /\ UNCHANGED <<state, durations, num_benches, clock, panic, calls, absent_seen, blog, warm_rec>>
       ELSE \E e \in Elapsed(Unwrap(bench_min_dur), num_benches) :
              IF DurGt(Unwrap(bench_min_dur), from_secs(e))
              THEN \E e2 \in {e + t : t \in Ticks} :
                     /\ clock' = e2
                     /\ pc' = pc
                     /\ IF DurGt(from_secs(e2), Unwrap(bench_min_dur))
                        THEN /\ panic' = SubMsg
                             /\ UNCHANGED <<state, durations, num_benches, calls, absent_seen, blog, warm_rec>>
                        ELSE /\ \E reps \in RoutineChoices : abort_or_run(reps)
                             /\ num_benches' = IF panic' = "none" THEN num_benches + 1
                                               ELSE num_benches
              ELSE /\ pc' = "bench_iters"
                   /\ clock' = 0
                   /\ UNCHANGED <<state, durations, num_benches, panic, calls, absent_seen, blog, warm_rec>>
    /\ i' = IF pc' = "bench_iters" /\ IsSome(bench_min_iters)
            THEN RangeStart(num_benches) ELSE i
    /\ UNCHANGED <<config, num_warmups, runs, fresh, ret, stat>>

\* lines 143-149: for i in num_benches..bench_min_iters, then the return
bench_iters_loop ==
    /\ pc = "bench_iters" /\ panic = "none"
    /\ IF IsSome(bench_min_iters) /\ RangeHasNext(i, Unwrap(bench_min_iters))
       THEN /\ \E reps \in RoutineChoices : abort_or_run(reps)
            /\ i' = IF panic' = "none" THEN i + 1 ELSE i
            /\ pc' = pc
       ELSE /\ pc' = "returned"
            /\ UNCHANGED <<state, durations, i, panic, calls, absent_seen, blog, warm_rec>>
    /\ UNCHANGED <<config, num_warmups, num_benches, clock, runs, fresh, ret, stat>>

(* --------------------------- specification ----------------------------- *)
\* Bencher::default(name), before any setter
Init ==
    /\ name = BenchName
    /\ state = "Warmup"
    /\ durations = <<>>
    /\ bench_min_iters = None
    /\ bench_min_dur = None
    /\ warmup_dur = None
    /\ warmup_iters = None
    /\ independent_variable = None
    /\ pc = "idle"
    /\ num_warmups = 0
    /\ num_benches = 0
    /\ i = 0
    /\ clock = 0
    /\ panic = "none"
    /\ runs = 0
    /\ fresh = FALSE
    /\ calls = 0
    /\ absent_seen = FALSE
    /\ blog = <<>>
    /\ warm_rec = FALSE
    /\ ret = <<>>
    /\ stat = NoCall

\* the setters and the report calls, made by the caller outside run_manual
Configure ==
    \/ \E secs \in SecsArgs : warmup_secs(secs)
    \/ \E n \in 0..MaxIters : Set_warmup_iters(n)
    \/ \E secs \in SecsArgs : bench_min_secs(secs)
    \/ \E n \in 0..MaxIters : Set_bench_min_iters(n)
    \/ \E u \in IndepArgs : Set_independent_variable(u)

\* the steps of a run_manual call in progress
Running ==
    \/ warmup_dur_loop
    \/ warmup_iters_loop
    \/ set_bench
    \/ bench_dur_loop
    \/ bench_iters_loop

run_manual_once == runs = 0 /\ run_manual_begin

\* a Bencher that is run once ("run exactly once per logical benchmark")
Next ==
    \/ Configure
    \/ \E r \in Reports : CallReport(r)
    \/ run_manual_once
    \/ Running

Spec == Init /\ [][Next]_vars

\* a Bencher on which run_manual is called again after it returned
NextRerun ==
    \/ Configure
    \/ \E r \in Reports : CallReport(r)
    \/ run_manual_begin
    \/ Running

SpecRerun == Init /\ [][NextRerun]_vars

\* the setters of the iteration thresholds and of the independent variable
ConfigureIters ==
    \/ \E n \in 0..MaxIters : Set_warmup_iters(n)
    \/ \E n \in 0..MaxIters : Set_bench_min_iters(n)
    \/ \E u \in IndepArgs : Set_independent_variable(u)

\* a Bencher driven by iteration counts, run any number of times and summarised
NextSummary ==
    \/ ConfigureIters
    \/ \E r \in Reports : CallReport(r)
    \/ summary_call
    \/ run_manual_begin
    \/ Running

SpecSummary == Init /\ [][NextSummary]_vars

(* ----------------- the statistics functions, called directly ------------- *)
\* the elements of the inputs: i32 values far from the limits of the type, and
\* f64 values up to the largest finite one
IntElems == {-3, -2, 1, 2, 3}
FloatElems == {Fin(0), Fin(3), Fin(4), Fin(12), Fin(MaxMag)}
\* the inputs of the tests of statistics.rs
TestInputs == {<<1>>, <<1, 2>>, <<1, 2, 3>>, <<1, 2, 3, 4>>, <<1, 2, 3, 4, 5>>}
SeqsOver(S) == UNION {[1..n -> S] : n \in 0..MaxLen}
StatInputs ==
    {[T |-> "i32", input |-> t, fn |-> "none", out |-> None] :
        t \in SeqsOver(IntElems) \cup TestInputs}
    \cup {[T |-> "f64", input |-> t, fn |-> "none", out |-> None] :
            t \in SeqsOver(FloatElems)}

\* the caller holds a sequence of either element type
InitStats ==
    /\ name = BenchName
    /\ state = "Warmup"
    /\ durations = <<>>
    /\ bench_min_iters = None
    /\ bench_min_dur = None
    /\ warmup_dur = None
    /\ warmup_iters = None
    /\ independent_variable = None
    /\ pc = "idle"
    /\ num_warmups = 0
    /\ num_benches = 0
    /\ i = 0
    /\ clock = 0
    /\ panic = "none"
    /\ runs = 0
    /\ fresh = FALSE
    /\ calls = 0
    /\ absent_seen = FALSE
    /\ blog = <<>>
    /\ warm_rec = FALSE
    /\ ret = <<>>
    /\ stat \in StatInputs

\* the caller calls fn(&input) and keeps what it returns
Returns(fn, out) ==
    /\ stat' = [stat EXCEPT !.fn = fn, !.out = out]
    /\ UNCHANGED bencher

call_min == stat.T = "f64" /\ Returns("min", min(stat.input))
call_max == stat.T = "f64" /\ Returns("max", max(stat.input))
call_sum == stat.T = "f64" /\ Returns("sum", sum(stat.input))
call_mean == stat.T = "f64" /\ Returns("mean", mean(stat.input))
call_median == stat.T \in ElemTypes /\ Returns("median", median(stat.T, stat.input))
call_quartiles == stat.T \in ElemTypes /\ Returns("quartiles", quartiles(stat.T, stat.input))
call_variance == stat.T = "f64" /\ Returns("variance", variance(stat.input, None))
call_standard_deviation ==
    stat.T = "f64" /\ Returns("standard_deviation", standard_deviation(stat.input, None))

NextStats ==
    \/ call_min
    \/ call_max
    \/ call_sum
    \/ call_mean
    \/ call_median
    \/ call_quartiles
    \/ call_variance
    \/ call_standard_deviation

SpecStats == InitStats /\ [][NextStats]_vars

(* ------------------------------ claims --------------------------------- *)
WarmupPcs == {"warmup_dur", "warmup_iters"}
BenchPcs == {"bench_dur", "bench_iters"}
\* a step in which the routine is invoked
Invokes == calls' = calls + 1
\* every measurement-phase invocation so far reported exactly one present duration
AllPresent(log) == \A k \in 1..Len(log) : log[k] = "present"

\* C1: in the run of a fresh Bencher with warmup_iters = N and no warmup duration,
\* every warmup invocation of the routine is made while the state is Warmup, and the
\* state is set to Bench only when exactly N invocations have been made.
C1_WarmupItersThenBench ==
    [][(fresh /\ warmup_dur = None /\ IsSome(warmup_iters)) =>
         /\ (Invokes /\ pc \in WarmupPcs) => state = "Warmup"
         /\ (state # "Bench" /\ state' = "Bench") => calls = Unwrap(warmup_iters)
         /\ pc \in WarmupPcs => state # "Bench"]_vars

C1_Witness ==
    /\ fresh /\ warmup_dur = None /\ warmup_iters = Some(MaxIters)
    /\ pc = "bench_dur" /\ state = "Bench" /\ i = MaxIters /\ panic = "none"

\* C2: when the run of a fresh Bencher with bench_min_iters = N and no measurement
\* duration returns, and every measurement invocation reported exactly one present
\* duration, exactly N samples are recorded (whatever the warmup thresholds are and
\* whatever the warmup invocations reported).
C2_SamplesEqualBenchIters ==
    (/\ fresh /\ pc = "returned"
     /\ bench_min_dur = None /\ IsSome(bench_min_iters)
     /\ AllPresent(blog))
    => /\ Len(durations) = Unwrap(bench_min_iters)
       /\ Len(blog) = Unwrap(bench_min_iters)

C2_Witness ==
    /\ fresh /\ pc = "returned"
    /\ bench_min_dur = None /\ bench_min_iters = Some(MaxIters)
    /\ warmup_iters = Some(1) /\ num_warmups = 1
    /\ Len(blog) = MaxIters /\ AllPresent(blog)
    /\ Len(durations) = MaxIters

\* C3: in the run of a fresh Bencher, if the first k-1 measurement invocations each
\* reported one present duration and the k-th reported an absent one, then exactly
\* k-1 samples are recorded, no further invocation is made, and the state is Abort
\* from then on, whether the run returns or panics.
C3_AbortOnKth ==
    \A k \in 1..Len(blog) :
        (fresh /\ AllPresent(SubSeq(blog, 1, k - 1)) /\ blog[k] = "absent")
        => /\ Len(durations) = k - 1
           /\ state = "Abort"
           /\ Len(blog) = k

C3_Witness ==
    /\ fresh /\ bench_min_iters = Some(MaxIters)
    /\ blog = [k \in 1..MaxIters |-> IF k < MaxIters THEN "present" ELSE "absent"]
    /\ pc = "returned" /\ state = "Abort"
    /\ Len(durations) = MaxIters - 1

\* C4: Abort is terminal: once the routine has reported an absent duration in a run
\* and the state is Abort, every later step leaves the state Abort and appends no
\* sample.
C4_AbortIsTerminal ==
    [][(absent_seen /\ state = "Abort")
       => (state' = "Abort" /\ durations' = durations)]_vars

\* C5: the routine is never invoked while the state is Abort: an attempt to invoke it
\* in that state panics with "Aborting benchmark!" without running the routine, and
\* after a panic run_manual takes no further step.
C5_NoInvocationInAbort ==
    [][/\ Invokes => state # "Abort"
       /\ (state = "Abort" /\ pc \in WarmupPcs \cup BenchPcs /\ pc' = pc)
          => /\ panic' \in {AbortMsg, SubMsg}
             /\ (panic' = SubMsg => pc = "bench_dur")
             /\ UNCHANGED <<state, durations, calls, blog, absent_seen>>
       /\ panic = "none"]_vars

C5_Witness ==
    /\ panic = AbortMsg /\ state = "Abort" /\ calls >= 1 /\ pc \in BenchPcs

\* C6: a report is recorded only while the state is Bench: in the states Warmup and
\* Abort no report call changes the recorded samples, and until the run of a fresh
\* Bencher sets the state to Bench the recorded sequence is empty.
C6_RecordedOnlyInBench ==
    /\ \A r \in Reports :
         state # "Bench" => Report(Self, r).durations = durations
    /\ (fresh /\ pc \in WarmupPcs \cup {"set_bench"}) => durations = <<>>

C6_Witness ==
    /\ fresh /\ pc = "set_bench" /\ calls = MaxIters /\ ~absent_seen
    /\ state = "Warmup" /\ durations = <<>>

\* a phase whose thresholds are unset or zero
NoThreshold(dur, iters) ==
    /\ dur = None \/ dur = Some(from_secs(0))
    /\ iters = None \/ iters = Some(0)

\* C7: a phase whose thresholds are each unset or zero invokes the routine zero
\* times and does not panic: the warmup phase ends with no invocation made, and so
\* does the measurement phase.
C7_ZeroThresholdsNoInvocation ==
    /\ (pc \in WarmupPcs \cup {"set_bench"}
        /\ NoThreshold(warmup_dur, warmup_iters))
       => (calls = 0 /\ panic = "none" /\ num_warmups = 0)
    /\ (pc \in BenchPcs \cup {"returned"}
        /\ NoThreshold(bench_min_dur, bench_min_iters))
       => (calls = 0 /\ panic = "none" /\ num_benches = 0 /\ blog = <<>>)

C7_Witness ==
    /\ pc = "returned"
    /\ warmup_dur = Some(from_secs(0)) /\ warmup_iters = None
    /\ bench_min_dur = Some(from_secs(0)) /\ bench_min_iters = Some(0)
    /\ calls = 0 /\ blog = <<>>

\* C8: with both thresholds of a phase configured, the duration-driven loop having
\* made d invocations, the iteration-driven loop makes max(0, N - d) more, and the
\* phase makes max(d, N) invocations in all.
C8_PhaseTotalIsMax ==
    /\ (pc = "set_bench" /\ IsSome(warmup_dur) /\ IsSome(warmup_iters))
       => /\ calls = Max(num_warmups, Unwrap(warmup_iters))
          /\ calls - num_warmups = Max(0, Unwrap(warmup_iters) - num_warmups)
    /\ (pc = "returned" /\ IsSome(bench_min_dur) /\ IsSome(bench_min_iters))
       => /\ calls = Max(num_benches, Unwrap(bench_min_iters))
          /\ calls - num_benches = Max(0, Unwrap(bench_min_iters) - num_benches)

C8_Witness ==
    /\ pc = "returned" /\ IsSome(bench_min_dur)
    /\ bench_min_iters = Some(MaxIters) /\ num_benches = 1 /\ calls = MaxIters
    /\ IsSome(warmup_dur) /\ warmup_iters = Some(1) /\ num_warmups = MaxSpin

\* C9 as stated: with both thresholds of a phase configured, the phase makes at
\* least d + N invocations.
C9_AtLeastSum ==
    /\ (pc = "set_bench" /\ IsSome(warmup_dur) /\ IsSome(warmup_iters))
       => calls >= num_warmups + Unwrap(warmup_iters)
    /\ (pc = "returned" /\ IsSome(bench_min_dur) /\ IsSome(bench_min_iters))
       => calls >= num_benches + Unwrap(bench_min_iters)

\* C9, amended: the iteration threshold counts the d invocations of the
\* duration-driven loop: the phase makes at least N and at least d invocations, at
\* most N of them in the iteration-driven loop, and fewer than d + N when d and N
\* are both positive.
C9_IterationsCountDurationRuns ==
    /\ (pc = "set_bench" /\ IsSome(warmup_dur) /\ IsSome(warmup_iters))
       => LET d == num_warmups
              N == Unwrap(warmup_iters) IN
          /\ calls >= N /\ calls >= d /\ calls - d <= N
          /\ (d >= 1 /\ N >= 1) => calls < d + N
    /\ (pc = "returned" /\ IsSome(bench_min_dur) /\ IsSome(bench_min_iters))
       => LET d == num_benches
              N == Unwrap(bench_min_iters) IN
          /\ calls >= N /\ calls >= d /\ calls - d <= N
          /\ (d >= 1 /\ N >= 1) => calls < d + N

C9_Witness ==
    /\ pc = "set_bench" /\ IsSome(warmup_dur)
    /\ warmup_iters = Some(MaxIters) /\ num_warmups = 1 /\ calls = MaxIters

\* C10: a run in which the routine reported an absent duration does not return
\* normally.
C10_AbsentNeverReturns ==
    pc = "returned" => ~absent_seen

\* a step of summary(): one more returned value
Summarises == Len(ret') = Len(ret) + 1

\* C11: summary() is a pure read: a call leaves every field of the Bencher as it
\* was, and a second call made right after the first returns the same Summary
C11_SummaryIsPureRead ==
    [][Summarises =>
         /\ UNCHANGED <<name, state, durations, bench_min_dur, bench_min_iters,
                        warmup_dur, warmup_iters, independent_variable>>
         /\ (Len(ret') = 2 => ret'[2] = ret'[1])]_vars

\* two calls in a row on a Bencher that holds samples
C11_Witness ==
    /\ Len(ret) = 2
    /\ Len(durations) >= 2
    /\ ret[2].n = Len(durations)

\* C12: summary() of a Bencher that was never run, whatever setters and report
\* calls were applied to it, has n = 0 and 0.0 for min, max, mean, median,
\* variance, standard deviation, interquartile range and each quartile
C12_NeverRunAllZero ==
    (runs = 0 /\ ret # <<>>) =>
        LET sm == ret[Len(ret)]
        IN  /\ sm.n = 0
            /\ sm.min = Zero /\ sm.max = Zero /\ sm.mean = Zero /\ sm.median = Zero
            /\ sm.var = Zero /\ sm.std_dev = Zero /\ sm.iqr = Zero
            /\ sm.quartiles = <<Zero, Zero, Zero>>

\* a summary of a configured Bencher that was never run
C12_Witness ==
    /\ runs = 0
    /\ ret # <<>>
    /\ IsSome(warmup_iters) /\ IsSome(bench_min_iters) /\ IsSome(independent_variable)

\* C13: with exactly one recorded sample the Summary's var and std_dev are finite
\* values set by policy, not the outcome of a division by n - 1 = 0
C13_SingleSampleByPolicy ==
    (ret # <<>> /\ Len(durations) = 1) =>
        /\ ret[Len(ret)].var.t = "fin"
        /\ ret[Len(ret)].std_dev.t = "fin"

\* a <= b in the element type
TLe(T, a, b) == TLt(T, a, b) \/ a = b

\* the k-th smallest element of t: fewer than k elements are below it, and at
\* least k are not above it
OrderStat(T, t, k) ==
    CHOOSE x \in {t[j] : j \in 1..Len(t)} :
        /\ Cardinality({j \in 1..Len(t) : TLt(T, t[j], x)}) < k
        /\ Cardinality({j \in 1..Len(t) : ~TLt(T, x, t[j])}) >= k
\* the elements of t in non-decreasing order
SortedCopy(T, t) == [k \in 1..Len(t) |-> OrderStat(T, t, k)]

\* C14: quartiles of a sequence of two or more elements is a triple Q1 <= Q2 <= Q3
C14_QuartilesOrdered ==
    (stat.fn = "quartiles" /\ Len(stat.input) >= 2) =>
        /\ IsSome(stat.out)
        /\ TLe(stat.T, Unwrap(stat.out)[1], Unwrap(stat.out)[2])
        /\ TLe(stat.T, Unwrap(stat.out)[2], Unwrap(stat.out)[3])

\* the reference quartiles: the medians of the first len/2 elements, of all, and
\* of the last len/2 elements of the sorted copy
RefQuartiles(T, t) ==
    LET s == SortedCopy(T, t)
        mid == Len(t) \div 2
        lower == [k \in 1..mid |-> s[k]]
        upper == [k \in 1..mid |-> s[Len(t) - mid + k]]
        q == <<median(T, lower), median(T, s), median(T, upper)>>
    IN  IF \E k \in 1..3 : q[k] = None THEN None
        ELSE Some(<<q[1][1], q[2][1], q[3][1]>>)

\* C15: quartiles returns the medians of the lower half, of the whole and of the
\* upper half of the sorted copy, and no value exactly for lengths 0 and 1
C15_QuartilesIsReference ==
    stat.fn = "quartiles" =>
        /\ stat.out = RefQuartiles(stat.T, stat.input)
        /\ (stat.out = None) = (Len(stat.input) \in {0, 1})
        /\ (stat.T = "i32" /\ stat.input = <<1, 2>> => stat.out = Some(<<1, 1, 2>>))
        /\ (stat.T = "i32" /\ stat.input = <<1, 2, 3, 4>>
               => stat.out = Some(<<1, 2, 3>>))
        /\ (stat.T = "i32" /\ stat.input = <<1, 2, 3, 4, 5>>
               => stat.out = Some(<<1, 3, 4>>))

\* quartiles of an unsorted sequence of odd length
C15_Witness ==
    /\ stat.fn = "quartiles"
    /\ stat.T = "i32"
    /\ stat.input = <<3, 1, -2>>
    /\ stat.out = Some(<<-2, 1, 3>>)

\* the median as the claim reads it, on the sorted copy s
RefMedian(T, s) ==
    IF Len(s) = 0 THEN None
    ELSE IF Len(s) % 2 = 1 THEN Some(s[(Len(s) + 1) \div 2])
    ELSE Some(TDiv(T, TAdd(T, s[Len(s) \div 2], s[Len(s) \div 2 + 1]), cast(T, 2)))

\* C16: median is the middle element of the sorted copy for an odd length, the
\* sum of the two middle elements over 2 in the element type for an even length,
\* no value for an empty sequence; the caller's sequence is left as it was
C16_MedianIsMiddleOfSorted ==
    [][stat'.fn = "median" =>
         /\ stat'.input = stat.input
         /\ stat'.out = RefMedian(stat.T, SortedCopy(stat.T, stat.input))]_vars

\* the median of an unsorted i32 pair whose sum is odd and negative: -1 / 2 = 0
C16_Witness ==
    /\ stat.fn = "median"
    /\ stat.T = "i32"
    /\ stat.input = <<2, -3>>
    /\ stat.out = Some(0)

\* C17: min <= median <= max and min <= mean <= max for a non-empty sequence
C17_WithinMinMax ==
    (stat.fn \in {"median", "mean"} /\ stat.T = "f64" /\ Len(stat.input) >= 1) =>
        /\ TLe("f64", Unwrap(min(stat.input)), Unwrap(stat.out))
        /\ TLe("f64", Unwrap(stat.out), Unwrap(max(stat.input)))

\* the measurement invocations of this run that reported no absent duration
NonAborting(log) == Cardinality({k \in 1..Len(log) : log[k] \in {"present", "other"}})

\* C18: when the run of a fresh Bencher returns, whatever number of report calls
\* each invocation of the routine made, the number of recorded samples is the
\* number of measurement invocations that did not abort
C18_OneSamplePerInvocation ==
    (fresh /\ pc = "returned") => Len(durations) = NonAborting(blog)

\* the durations the report calls can pass
Reported == {from_millis(m) : m \in MillisArgs} \cup DurArgs
\* the duration a report call passes, if any
Passed(r) == IF r.op = "manual_millis" THEN Some(from_millis(r.arg)) ELSE r.arg

\* C19: the recorded samples are append-only: every step of every operation
\* (setters, report calls, run_manual, summary) keeps the samples recorded so far
\* as a prefix, and what it adds are reported durations, put at the end
C19_AppendOnly ==
    [][/\ Len(durations') >= Len(durations)
       /\ SubSeq(durations', 1, Len(durations)) = durations
       /\ \A k \in (Len(durations) + 1)..Len(durations') : durations'[k] \in Reported
       /\ \A r \in Reports :
            IsSome(Passed(r)) /\ state = "Bench"
            => Report(Self, r).durations = Append(durations, Unwrap(Passed(r)))]_vars

\* samples of two kinds recorded over two runs, and summarised
C19_Witness ==
    /\ runs = MaxRuns
    /\ Len(durations) = MaxSamples
    /\ durations[1] # durations[MaxSamples]
    /\ ret # <<>>

\* C20: no step sets the state back to Warmup, and a call of run_manual starts in
\* the state the Bencher was left in: in a later call that starts in Bench the
\* present durations reported during the warmup phase are recorded
C20_NeverBackToWarmup ==
    [][/\ state # "Warmup" => state' # "Warmup"
       /\ runs' = runs + 1 => state' = state
       /\ warm_rec' => runs' >= 2
       /\ (runs >= 2 /\ pc \in WarmupPcs /\ state = "Bench")
          => \A r \in Reports :
               IsSome(Passed(r))
               => Report(Self, r).durations = Append(durations, Unwrap(Passed(r)))]_vars

\* a second run that recorded a sample in its warmup phase and went on to measure
C20_Witness ==
    /\ runs = 2
    /\ warm_rec
    /\ pc \in BenchPcs
    /\ IsSome(warmup_iters)

====
